---- MODULE Spec2Model ----
(***************************************************************************)
(* Extended binary Golay code (24,12,8) of src/src/lib.rs: encode, ecc     *)
(* (two-stage syndrome correction), decode and weight.                     *)
(*                                                                         *)
(* A machine word (u16, u32) is modelled as the set of the positions of    *)
(* its set bits, bit 0 being the least significant one: 0b101 is {0, 2}.   *)
(* The bitwise operators of the source are then the set operations below;  *)
(* a binary literal of the source is written as the tuple of its digits    *)
(* and converted by Bin.                                                   *)
(***************************************************************************)
EXTENDS FiniteSets, Integers, Sequences

\* ---------------------------------------------------------------- bounds

\* Number of sample data words that are sent with every error pattern.
NumTx == 2
\* Burst errors (runs of adjacent flipped bits) up to this length are injected.
MaxBurst == 8
\* Number of sample data words paired with every 12-bit data word.
NumPair == 3

\* ------------------------------------------------------ words and bit ops

\* Bin(<<1,0,1>>) is the word 0b101: digit k (from the left, 1-based) of an
\* n-digit literal is bit n - k.
Bin(d) == {Len(d) - k : k \in {j \in 1..Len(d) : d[j] = 1}}

\* x & y
and(x, y) == x \cap y
\* x | y
or(x, y) == x \cup y
\* x ^ y
xor(x, y) == (x \ y) \cup (y \ x)
\* x >> n
shr(x, n) == {p - n : p \in {q \in x : q >= n}}
\* x << n on a u32
shl(x, n) == {p + n : p \in {q \in x : q + n < 32}}

x800 == {11}
x800000 == {23}
xFFF == 0..11
xFFFFFF == 0..23

\* ------------------------------------------------------------ the tables

H_T == << Bin(<<1,0,0,1,1,1,1,1,0,0,0,1>>),
          Bin(<<0,1,0,0,1,1,1,1,1,0,1,0>>),
          Bin(<<0,0,1,0,0,1,1,1,1,1,0,1>>),
          Bin(<<1,0,0,1,0,0,1,1,1,1,1,0>>),
          Bin(<<1,1,0,0,1,0,0,1,1,1,0,1>>),
          Bin(<<1,1,1,0,0,1,0,0,1,1,1,0>>),
          Bin(<<1,1,1,1,0,0,1,0,0,1,0,1>>),
          Bin(<<1,1,1,1,1,0,0,1,0,0,1,0>>),
          Bin(<<0,1,1,1,1,1,0,0,1,0,0,1>>),
          Bin(<<0,0,1,1,1,1,1,0,0,1,1,0>>),
          Bin(<<0,1,0,1,0,1,0,1,0,1,1,1>>),
          Bin(<<1,0,1,0,1,0,1,0,1,0,1,1>>),
          Bin(<<1,0,0,0,0,0,0,0,0,0,0,0>>),
          Bin(<<0,1,0,0,0,0,0,0,0,0,0,0>>),
          Bin(<<0,0,1,0,0,0,0,0,0,0,0,0>>),
          Bin(<<0,0,0,1,0,0,0,0,0,0,0,0>>),
          Bin(<<0,0,0,0,1,0,0,0,0,0,0,0>>),
          Bin(<<0,0,0,0,0,1,0,0,0,0,0,0>>),
          Bin(<<0,0,0,0,0,0,1,0,0,0,0,0>>),
          Bin(<<0,0,0,0,0,0,0,1,0,0,0,0>>),
          Bin(<<0,0,0,0,0,0,0,0,1,0,0,0>>),
          Bin(<<0,0,0,0,0,0,0,0,0,1,0,0>>),
          Bin(<<0,0,0,0,0,0,0,0,0,0,1,0>>),
          Bin(<<0,0,0,0,0,0,0,0,0,0,0,1>>) >>

G == << Bin(<<1,0,0,0,0,0,0,0,0,0,0,0, 1,0,0,1,1,1,1,1,0,0,0,1>>),
        Bin(<<0,1,0,0,0,0,0,0,0,0,0,0, 0,1,0,0,1,1,1,1,1,0,1,0>>),
        Bin(<<0,0,1,0,0,0,0,0,0,0,0,0, 0,0,1,0,0,1,1,1,1,1,0,1>>),
        Bin(<<0,0,0,1,0,0,0,0,0,0,0,0, 1,0,0,1,0,0,1,1,1,1,1,0>>),
        Bin(<<0,0,0,0,1,0,0,0,0,0,0,0, 1,1,0,0,1,0,0,1,1,1,0,1>>),
        Bin(<<0,0,0,0,0,1,0,0,0,0,0,0, 1,1,1,0,0,1,0,0,1,1,1,0>>),
        Bin(<<0,0,0,0,0,0,1,0,0,0,0,0, 1,1,1,1,0,0,1,0,0,1,0,1>>),
        Bin(<<0,0,0,0,0,0,0,1,0,0,0,0, 1,1,1,1,1,0,0,1,0,0,1,0>>),
        Bin(<<0,0,0,0,0,0,0,0,1,0,0,0, 0,1,1,1,1,1,0,0,1,0,0,1>>),
        Bin(<<0,0,0,0,0,0,0,0,0,1,0,0, 0,0,1,1,1,1,1,0,0,1,1,0>>),
        Bin(<<0,0,0,0,0,0,0,0,0,0,1,0, 0,1,0,1,0,1,0,1,0,1,1,1>>),
        Bin(<<0,0,0,0,0,0,0,0,0,0,0,1, 1,0,1,0,1,0,1,0,1,0,1,1>>) >>

\* ------------------------------------------------------------- functions

\* s.count_ones()
weight(s) == Cardinality(s)

\* Mutant of encodeLoop: the data is taken from the top 12 bits of the u16
\* (0x8000 >> i).
RECURSIVE encodeLoopHigh(_, _, _)
encodeLoopHigh(a, i, c) ==
  IF i = Len(G) THEN c
  ELSE LET tmp == shr({15}, i)
           a_bit == IF and(a, tmp) = tmp THEN xFFFFFF ELSE {}
       IN encodeLoopHigh(a, i + 1, xor(c, and(a_bit, G[i + 1])))

\* Mutant of encodeLoop: c |= ... in place of c ^= ...
RECURSIVE encodeLoopOr(_, _, _)
encodeLoopOr(a, i, c) ==
  IF i = Len(G) THEN c
  ELSE LET tmp == shr(x800, i)
           a_bit == IF and(a, tmp) = tmp THEN xFFFFFF ELSE {}
       IN encodeLoopOr(a, i + 1, or(c, and(a_bit, G[i + 1])))

\* Mutant of encodeLoop: the mask is 0xFFFFF (20 bits) in place of 0xFFFFFF.
RECURSIVE encodeLoopMask(_, _, _)
encodeLoopMask(a, i, c) ==
  IF i = Len(G) THEN c
  ELSE LET tmp == shr(x800, i)
           a_bit == IF and(a, tmp) = tmp THEN 0..19 ELSE {}
       IN encodeLoopMask(a, i + 1, xor(c, and(a_bit, G[i + 1])))

\* The loop of encode from index i on, c being the codeword so far.
RECURSIVE encodeLoop(_, _, _)
encodeLoop(a, i, c) ==
  IF i = Len(G) THEN c
  ELSE LET tmp == shr(x800, i)
           a_bit == IF and(a, tmp) = tmp THEN xFFFFFF ELSE {}
       IN encodeLoop(a, i + 1, xor(c, and(a_bit, G[i + 1])))

encode(a) == encodeLoop(a, 0, {})

decode(a) == and(shr(a, 12), xFFF)

\* The first syndrome loop of ecc from index i on: s is the syndrome so far
\* and n the number of iterations done.
RECURSIVE syndromeLoop(_, _, _, _)
syndromeLoop(r, i, s, n) ==
  IF i = Len(H_T) THEN [val |-> s, n |-> n]
  ELSE LET tmp == shr(x800000, i)
           e_bit == IF and(r, tmp) = tmp THEN xFFF ELSE {}
       IN syndromeLoop(r, i + 1, xor(s, and(e_bit, H_T[i + 1])), n + 1)

\* Mutant of secondLoop: take(12) is missing, all 24 rows are visited.
RECURSIVE secondLoopAll(_, _, _, _)
secondLoopAll(s, i, sh, n) ==
  IF i = Len(H_T) THEN [val |-> sh, n |-> n]
  ELSE LET tmp == shr(x800, i)
           s_bit == IF and(s, tmp) = tmp THEN xFFF ELSE {}
       IN secondLoopAll(s, i + 1, xor(sh, and(s_bit, H_T[i + 1])), n + 1)

\* The second syndrome loop of ecc (over the first 12 rows of H_T).
RECURSIVE secondLoop(_, _, _, _)
secondLoop(s, i, sh, n) ==
  IF i = 12 THEN [val |-> sh, n |-> n]
  ELSE LET tmp == shr(x800, i)
           s_bit == IF and(s, tmp) = tmp THEN xFFF ELSE {}
       IN secondLoop(s, i + 1, xor(sh, and(s_bit, H_T[i + 1])), n + 1)

\* Mutant of light: the threshold is 4.
lightLoose(s) == weight(s) <= 4
\* The test of both syndromes: at most 3 bits set.
light(s) == weight(s) <= 3

\* Mutants of match: the threshold is 3, or 1.
matchLoose(s, i) == weight(xor(s, H_T[i + 1])) <= 3
matchStrict(s, i) == weight(xor(s, H_T[i + 1])) <= 1
\* The test of both scans: row i of H_T brings the syndrome to weight <= 2.
match(s, i) == weight(xor(s, H_T[i + 1])) <= 2

\* Mutant of e1: the single bit is 0x800 >> i.
e1LowBit(s, i) == or(shr(x800, i), xor(s, H_T[i + 1]))
\* The error vector built by the first scan at row i.
e1(s, i) == or(shr(x800000, i), xor(s, H_T[i + 1]))

\* Mutant of e2: tmp is not shifted into the high field.
e2NoShift(sh, i) == or(xor(sh, H_T[i + 1]), shr(x800, i))
\* The error vector built by the second scan at row i.
e2(sh, i) == or(shl(xor(sh, H_T[i + 1]), 12), shr(x800, i))

\* Mutant of fixHigh: sh is not shifted into the high field.
fixHighNoShift(r, sh) == xor(r, sh)
\* The word returned when the second syndrome is light.
fixHigh(r, sh) == xor(r, shl(sh, 12))

\* A scan from index i on: the index of the first matching row (12 when no
\* row matches) and the number of iterations done.
RECURSIVE scan(_, _, _)
scan(s, i, n) ==
  IF i = 12 THEN [val |-> 12, n |-> n]
  ELSE IF match(s, i) THEN [val |-> i, n |-> n + 1]
  ELSE scan(s, i + 1, n + 1)

\* ecc(r): flag and code are the returned pair; s and sh are the two
\* syndromes (sh is empty when the second loop is not reached), iters counts
\* the iterations of the four loops and exit names the return taken.
ecc(r) ==
  LET l1 == syndromeLoop(r, 0, {}, 0)
      s == l1.val
  IN IF s = {}
     THEN [flag |-> TRUE, code |-> r, s |-> s, sh |-> {}, iters |-> l1.n, exit |-> "zero"]
     ELSE IF light(s)
     THEN [flag |-> TRUE, code |-> xor(r, s), s |-> s, sh |-> {}, iters |-> l1.n,
           exit |-> "light"]
     ELSE LET c1 == scan(s, 0, l1.n)
          IN IF c1.val < 12
             THEN [flag |-> TRUE, code |-> xor(r, e1(s, c1.val)), s |-> s, sh |-> {},
                   iters |-> c1.n, exit |-> "scan"]
             ELSE LET l2 == secondLoop(s, 0, {}, c1.n)
                      sh == l2.val
                  IN IF light(sh)
                     THEN [flag |-> TRUE, code |-> fixHigh(r, sh), s |-> s,
                           sh |-> sh, iters |-> l2.n, exit |-> "light2"]
                     ELSE LET c2 == scan(sh, 0, l2.n)
                          IN IF c2.val < 12
                             THEN [flag |-> TRUE, code |-> xor(r, e2(sh, c2.val)),
                                   s |-> s, sh |-> sh, iters |-> c2.n, exit |-> "scan2"]
                             ELSE [flag |-> FALSE, code |-> r, s |-> s, sh |-> sh,
                                   iters |-> c2.n, exit |-> "fail"]

\* ---------------------------------------------------------------- inputs

\* Sample data words: tx of the test of lib.rs, tx of main.rs, then others.
Samples == << Bin(<<1,0,0,1,1,0,0,0,1,1,0,1>>),
              Bin(<<0,0,0,1,1,0,0,0,1,1,0,1>>),
              Bin(<<1,1,1,1,1,1,1,1,1,1,1,1>>),
              Bin(<<0,0,0,0,0,0,0,0,0,0,0,0>>),
              Bin(<<1,0,1,0,1,0,1,0,1,0,1,0>>),
              Bin(<<0,0,0,0,0,0,0,0,0,0,0,1>>) >>

\* The data words sent with every error pattern.
TxWords == {Samples[k] : k \in 1..NumTx}
\* The data words paired with every data word.
PairWords == {Samples[k] : k \in 1..NumPair}

\* The error patterns of the test: its four nested loops over the bit
\* positions give every pattern of 1, 2, 3 or 4 flipped bits.
TestErrors ==
  {or(or(shl({0}, i), shl({0}, j)), or(shl({0}, k), shl({0}, l))) :
     i \in 0..23, j \in 0..23, k \in 0..23, l \in 0..23}

\* The burst errors: len adjacent bits flipped, from bit p up.
Bursts == {x[1]..(x[1] + x[2] - 1) :
             x \in {y \in (0..23) \X (1..MaxBurst) : y[1] + y[2] <= 24}}

\* The error patterns injected into the sample codewords.
Errors == TestErrors \cup Bursts

\* Every value of a u16.
AllU16 == SUBSET (0..15)
\* Every 12-bit data word.
AllData == SUBSET (0..11)

\* ----------------------------------------------------------------- state

VARIABLES pc, tx, encoded, error, rx, flag, corrected, s, sh, iters, exit,
          data, b, encB, encAB

vars == <<pc, tx, encoded, error, rx, flag, corrected, s, sh, iters, exit,
          data, b, encB, encAB>>

Init ==
  /\ pc = "idle"
  /\ tx = {} /\ encoded = {} /\ error = {} /\ rx = {}
  /\ flag = FALSE /\ corrected = {} /\ s = {} /\ sh = {} /\ iters = 0
  /\ exit = "none" /\ data = {} /\ b = {} /\ encB = {} /\ encAB = {}

\* The test's harness: data word a is encoded and error pattern e flips
\* bits of the codeword.
Send(a, e) ==
  \E c \in {encode(a)} :
    /\ tx' = a
    /\ encoded' = c
    /\ error' = e
    /\ rx' = xor(c, e)
    /\ pc' = "sent"
    /\ UNCHANGED <<flag, corrected, s, sh, iters, exit, data, b, encB, encAB>>

\* A sample data word is sent with any of the error patterns.
Transmit ==
  /\ pc = "idle"
  /\ \E a \in TxWords, e \in Errors : Send(a, e)

\* Any data word is sent without error.
TransmitClean ==
  /\ pc = "idle"
  /\ \E a \in AllData : Send(a, {})

\* let (flag, corrected) = ecc(rx)
Correct ==
  /\ pc = "sent"
  /\ \E res \in {ecc(rx)} :
        /\ flag' = res.flag
        /\ corrected' = res.code
        /\ s' = res.s
        /\ sh' = res.sh
        /\ iters' = res.iters
        /\ exit' = res.exit
  /\ pc' = "corrected"
  /\ UNCHANGED <<tx, encoded, error, rx, data, b, encB, encAB>>

\* decode(corrected)
Recover ==
  /\ pc = "corrected"
  /\ data' = decode(corrected)
  /\ pc' = "decoded"
  /\ UNCHANGED <<tx, encoded, error, rx, flag, corrected, s, sh, iters, exit,
                 b, encB, encAB>>

Next ==
  \/ Transmit
  \/ TransmitClean
  \/ Correct
  \/ Recover

Spec == Init /\ [][Next]_vars

\* encode then decode of any u16.
EncodeWord ==
  /\ pc = "idle"
  /\ \E a \in AllU16 : \E c \in {encode(a)} :
       /\ tx' = a
       /\ encoded' = c
       /\ data' = decode(c)
  /\ pc' = "encoded"
  /\ UNCHANGED <<error, rx, flag, corrected, s, sh, iters, exit, b, encB, encAB>>

\* Two data words and their XOR are encoded.
EncodePair ==
  /\ pc = "idle"
  /\ \E a1 \in AllData, a2 \in PairWords :
       /\ tx' = a1
       /\ b' = a2
       /\ encoded' = encode(a1)
       /\ encB' = encode(a2)
       /\ encAB' = encode(xor(a1, a2))
  /\ pc' = "paired"
  /\ UNCHANGED <<error, rx, flag, corrected, s, sh, iters, exit, data>>

NextEncode ==
  \/ EncodeWord
  \/ EncodePair

SpecEncode == Init /\ [][NextEncode]_vars

\* ---------------------------------------------------------------- claims

\* ecc has returned.
Done == pc \in {"corrected", "decoded"}

\* The syndrome of word r, and the second syndrome of a first syndrome x.
syndrome(r) == syndromeLoop(r, 0, {}, 0).val
second(x) == secondLoop(x, 0, {}, 0).val
\* The rows of H_T (0-based, among the first 12) that match syndrome x.
Matches(x) == {i \in 0..11 : match(x, i)}

\* C1: an error of weight 0, 1, 2 or 3 on a codeword is corrected: ecc returns
\* flag = true and the codeword sent, and decode of it gives the data sent.
C1_CorrectsUpTo3 ==
  /\ Done /\ weight(error) <= 3 => flag /\ corrected = encoded
  /\ pc = "decoded" /\ weight(error) <= 3 => data = tx

C1_Witness ==
  /\ pc = "decoded" /\ weight(error) = 3 /\ exit = "scan2"
  /\ flag /\ corrected = encoded /\ corrected # rx /\ data = tx

\* C2: an error of weight exactly 4 is detected, wherever its bits lie: ecc
\* returns flag = false and the received word unchanged.
C2_Detects4 ==
  Done /\ weight(error) = 4 => ~flag /\ corrected = rx

C2_Witness ==
  /\ Done /\ weight(error) = 4 /\ error \subseteq 0..11
  /\ ~flag /\ corrected = rx

\* C3: for every u16 a, decode(encode(a)) = a & 0xFFF: bits [23:12] of the
\* codeword are the low 12 bits of a, bits 12..15 of a change nothing and
\* bits 12..15 of the decoded word are zero.
C3_RoundTrip ==
  pc = "encoded" =>
    /\ data = and(tx, xFFF)
    /\ shr(encoded, 12) = and(tx, xFFF)
    /\ encoded = encode(and(tx, xFFF))
    /\ and(data, 12..15) = {}

C3_Witness ==
  /\ pc = "encoded" /\ and(tx, 12..15) # {} /\ and(tx, xFFF) # {}
  /\ data = and(tx, xFFF)

\* C4: encode is linear over GF(2): encode(a ^ b) = encode(a) ^ encode(b), and
\* so encode(0) = 0.
C4_Linear ==
  pc = "paired" =>
    /\ encAB = xor(encoded, encB)
    /\ tx = b => encAB = {}

C4_Witness ==
  /\ pc = "paired" /\ tx # b /\ and(tx, b) # {} /\ tx # {} /\ b # {}
  /\ encAB = xor(encoded, encB) /\ encAB # {}

\* C5: the code has minimum distance 8: two distinct data words give codewords
\* that differ in at least 8 bits, and every nonzero data word gives a
\* codeword of weight at least 8.
C5_MinDistance8 ==
  pc = "paired" =>
    /\ tx # b => weight(xor(encoded, encB)) >= 8
    /\ tx # {} => weight(encoded) >= 8

\* some pair differs in exactly 8 bits
C5_Witness ==
  pc = "paired" /\ tx # b /\ b # {} /\ weight(xor(encoded, encB)) = 8

\* C6: errors of weight 5 or more escape detection. Every error of weight
\* exactly 5 does: ecc returns flag = true and a codeword other than the one
\* sent.
C6_Weight5Escapes ==
  Done /\ weight(error) = 5 => flag /\ corrected # encoded

C6_Witness ==
  Done /\ weight(error) >= 5 /\ flag /\ corrected # encoded

\* C7 as stated: ecc runs at most 24 + 12 + 12 = 48 loop iterations.
C7_AtMost48 ==
  Done => iters <= 48

\* C7 amended: ecc runs at most 24 + 12 + 12 + 12 = 60 loop iterations, and
\* exactly 60 when it returns false.
C7_AtMost60 ==
  Done => iters <= 60 /\ (~flag => iters = 60)

C7_Witness ==
  Done /\ ~flag /\ iters = 60

\* C8 as stated: when s is heavy, no row matches it and sh is light, the
\* returned word is the received one XOR sh in the low 12 bits.
C8_LowField ==
  Done /\ ~light(s) /\ Matches(s) = {} /\ light(second(s))
    => flag /\ corrected = xor(rx, second(s))

\* C8 amended: ... the returned word is the received one XOR sh in the high 12
\* bits (bits [23:12]).
C8_HighField ==
  Done /\ ~light(s) /\ Matches(s) = {} /\ light(second(s))
    => flag /\ sh = second(s) /\ corrected = xor(rx, shl(second(s), 12))

C8_Witness ==
  /\ Done /\ ~light(s) /\ Matches(s) = {} /\ light(second(s))
  /\ flag /\ corrected = xor(rx, shl(sh, 12)) /\ and(xor(rx, corrected), xFFF) = {}

\* C9: no ties in the scans: a heavy first syndrome is matched by at most one
\* row, and so is a second syndrome that reaches the second scan; the word
\* returned by a scan is the one any matching row gives.
C9_NoTies ==
  Done =>
    /\ ~light(s) => Cardinality(Matches(s)) <= 1
    /\ exit \in {"scan2", "fail"} => Cardinality(Matches(sh)) <= 1
    /\ exit = "scan" => \A i \in Matches(s) : corrected = xor(rx, e1(s, i))
    /\ exit = "scan2" => \A i \in Matches(sh) : corrected = xor(rx, e2(sh, i))

C9_Witness ==
  Done /\ exit = "scan2" /\ Cardinality(Matches(sh)) = 1 /\ Matches(s) = {}

\* C10: when ecc returns true, the returned word is a codeword (its syndrome
\* is zero and it is the encoding of its data field) and differs from the
\* received word in at most 3 bits.
C10_SoundFlag ==
  Done /\ flag =>
    /\ syndrome(corrected) = {}
    /\ corrected = encode(decode(corrected))
    /\ weight(xor(corrected, rx)) <= 3

C10_Witness ==
  /\ Done /\ flag /\ corrected # encoded /\ weight(xor(corrected, rx)) = 3
  /\ corrected = encode(decode(corrected))

====
